---- MODULE Spec2Model ----
(***************************************************************************)
(* Clarification lifecycle of a-better-chat: the React state owned by      *)
(* ChatInterface (clarifications, activeClarification), the request        *)
(* textbox of ClarificationPanel, the /api/clarify calls in flight and the *)
(* endpoint that answers them.                                             *)
(*                                                                         *)
(* Texts typed or selected by the user are sequences of one-character      *)
(* strings, so that String.prototype.trim and JavaScript truthiness are    *)
(* computed and not assumed.  Ids are the numbers Date.now() returned:     *)
(* Number.prototype.toString is injective and ids are only compared with   *)
(* ===, so the decimal rendering is not modelled.                          *)
(***************************************************************************)
EXTENDS Integers, Sequences, FiniteSets, Bags, TLC

\* ------------------------------------------------------------------ bounds
MaxClarifications == 2
MaxInFlight == 2
MaxDirectCalls == 1
MaxStoreClarifications == 1
MaxMessages == 3
MaxDeferred == 2

\* ------------------------------------------------------- input alphabets
MessageIds == {"1"}
SelectedTexts == {<<"a", " ", "b">>}
Requests == {<< >>, <<" ">>, <<"q">>}
ClockValues == 1..MaxClarifications
AnchorTexts == SelectedTexts \cup {<<"c">>}
Questions == Requests \cup {<<"r">>}
ChatInputs == {<<"q">>}

\* What a client can post to /api/clarify: a JSON object with or without
\* each of the three fields, the field values being strings (empty, blank or
\* with text) and an array of lines; the JSON value null; and a body that is
\* not JSON.
FieldValues == Requests \cup SelectedTexts
Contexts == {<< >>, << <<"user", ": ", <<"q">> >> >>}
Unparsable == [unparsable |-> TRUE]
Viewports == {375, 1024}

\* ------------------------------------------------------ program constants
Undefined == "undefined"
Null == [null |-> TRUE]
ErrorResponse == "Sorry, I encountered an error while generating this clarification. Please try again."
FallbackResponse == "I apologize, but I couldn't generate a clarification."
OpenAIContents == {"t1", ""}
GeneratorThrows == "throw"
Greeting == "Hello! I'm here to help."
ChatReplies == {"r1"}
DebounceDelay == 100
TickMs == 50
InitialMessages == <<[role |-> "assistant", content |-> Greeting]>>
ChatErrorText == "Sorry, I encountered an error while processing your request. Please check your OpenAI API key and try again."

\* ------------------------------------------------------------ the document
\* The rendered text of assistant message '1', and the text that follows its
\* container in document order (the next message).
MessageId == "1"
MessageText ==
  <<"G", "r", "a", "d", "i", "e", "n", "t", " ", "d", "e", "s", "c", "e",
    "n", "t", " ", "i", "s", " ", "a", "n", " ", "o", "p", "t", "i", "m",
    "i", "z", "a", "t", "i", "o", "n", " ", "a", "l", "g", "o", "r", "i",
    "t", "h", "m", ".">>
OutsideText == <<"N", "e", "x", "t">>

\* A DOM Range: boundary points are (container, offset) pairs, the container
\* being the text inside the message's element or the text after it.
Range(startContainer, startOffset, endContainer, endOffset) ==
  [startContainer |-> startContainer, startOffset |-> startOffset,
   endContainer |-> endContainer, endOffset |-> endOffset]

\* The selections the user makes: "optimization algorithm", the same with the
\* space before it, a single space, the characters 20 to 42, a selection that
\* starts in the message and ends in the next one, and one after the message.
Ranges ==
  {Range("message", 23, "message", 45), Range("message", 22, "message", 45),
   Range("message", 19, "message", 20), Range("message", 20, "message", 42),
   Range("message", 36, "outside", 4), Range("outside", 0, "outside", 4)}

\* A DOMRect, in whole pixels.
Rect(left, top, width, height) ==
  [left |-> left, top |-> top, width |-> width, height |-> height,
   right |-> left + width, bottom |-> top + height]

\* What the three getBoundingClientRect calls of the deferred callback give:
\* the selection, the message container and its content.  containerRect is
\* Null when messageRef.current is, contentRect when contentRef.current is;
\* throws tells whether the try block throws and whether its catch does too.
Layout(rect, containerRect, contentRect, throws) ==
  [rect |-> rect, containerRect |-> containerRect,
   contentRect |-> contentRect, throws |-> throws]

\* Two selections of one line at different horizontal positions, a selection
\* one line further down, a container that is not laid out (all rectangles
\* of size zero), refs that are not attached, and throwing calls.
Layouts ==
  {Layout(Rect(40, 120, 60, 21), Rect(10, 100, 600, 80),
          Rect(10, 100, 580, 80), "never"),
   Layout(Rect(200, 120, 60, 21), Rect(10, 100, 600, 80),
          Rect(10, 100, 580, 80), "never"),
   Layout(Rect(40, 141, 60, 21), Rect(10, 100, 600, 80),
          Rect(10, 100, 580, 80), "never"),
   Layout(Rect(0, 0, 0, 0), Rect(0, 0, 0, 0), Rect(0, 0, 0, 0), "never"),
   Layout(Rect(40, 120, 60, 21), Rect(10, 100, 600, 80), Null, "never"),
   Layout(Rect(40, 120, 60, 21), Null, Null, "never"),
   Layout(Rect(40, 120, 60, 21), Rect(10, 100, 600, 80),
          Rect(10, 100, 580, 80), "try"),
   Layout(Rect(40, 120, 60, 21), Rect(10, 100, 600, 80), Null, "try"),
   Layout(Rect(40, 120, 60, 21), Rect(10, 100, 600, 80),
          Rect(10, 100, 580, 80), "catch")}

\* The message laid out, as it is while the user selects in it.
LaidOut ==
  {Layout(Rect(40, 120, 60, 21), Rect(10, 100, 600, 80),
          Rect(10, 100, 580, 80), "never")}

VARIABLES now, clarifications, activeClarification, request, inFlight, lastCall,
          directCalls,
          messages, isLoading, inputValue, chatInFlight,
          selection, selectionRangeRef, selected, showClarifyButton,
          buttonPosition, isClarifyingRef, deferred,
          innerWidth,
          timeouts, sinceEvent, burst, bubbleSelectedText, showContextMenu,
          served

\* ChatInterface: the chat itself, and the fetch('/api/chat') calls that have
\* not settled (their continuations read nothing of the call).
chatVars == <<messages, isLoading, inputValue, chatInFlight>>

\* The state of the AIMessage of message '1' (selected is its selectedText)
\* and the setTimeout(0) callbacks it has scheduled, oldest first.
aiVars == <<selectionRangeRef, selected, showClarifyButton, buttonPosition,
            isClarifyingRef, deferred>>

\* The document selection and the AIMessage.
selVars == <<selection, aiVars>>

\* MessageBubble: the timeouts its selectionchange listener has pending (the
\* milliseconds each has left), its selectedText and showContextMenu; and, of
\* the selectionchange events, the time since the last one and how many the
\* current burst has had (both capped).
bubbleVars ==
  <<timeouts, sinceEvent, burst, bubbleSelectedText, showContextMenu>>

\* The window (its width is read by no component of the repository), the
\* MessageBubble, and the last exchange of the /api/clarify route.
pageVars == <<innerWidth, bubbleVars, served>>

vars == <<now, clarifications, activeClarification, request, inFlight, lastCall,
          directCalls, chatVars, selVars, pageVars>>

\* ------------------------------------------------------------- JavaScript
IsWhitespace(ch) == ch \in {" ", "\t", "\n"}

RECURSIVE TrimStart(_)
TrimStart(s) ==
  IF s = << >> THEN << >>
  ELSE IF IsWhitespace(Head(s)) THEN TrimStart(Tail(s)) ELSE s

RECURSIVE TrimEnd(_)
TrimEnd(s) ==
  IF s = << >> THEN << >>
  ELSE IF IsWhitespace(s[Len(s)]) THEN TrimEnd(SubSeq(s, 1, Len(s) - 1)) ELSE s

Trim(s) == TrimEnd(TrimStart(s))

Truthy(s) == s # << >>

MapSeq(f(_), s) == [i \in 1..Len(s) |-> f(s[i])]

\* String.prototype.slice(a, b) for 0 <= a <= b <= length.
Slice(s, a, b) == SubSeq(s, a + 1, b)

\* Array.prototype.slice(-n): the last n elements, or all if there are fewer.
SliceFromEnd(s, n) ==
  IF Len(s) <= n THEN s ELSE SubSeq(s, Len(s) - n + 1, Len(s))

\* ------------------------------------------------------------------- DOM
TextOf(container) == IF container = "message" THEN MessageText ELSE OutsideText

\* Selection.toString(): the text between the boundary points.
SelectionToString(range) ==
  IF range.startContainer = range.endContainer
  THEN Slice(TextOf(range.startContainer), range.startOffset, range.endOffset)
  ELSE Slice(TextOf(range.startContainer), range.startOffset,
             Len(TextOf(range.startContainer)))
       \o Slice(TextOf(range.endContainer), 0, range.endOffset)

\* messageRef.current.contains(node)
Contains(node) == node = "message"

CommonAncestorContainer(range) ==
  IF range.startContainer = range.endContainer THEN range.startContainer
  ELSE "document"

\* AIMessage: isInMessage.
IsInMessage(range) ==
  \/ Contains(range.startContainer)
  \/ Contains(range.endContainer)
  \/ Contains(CommonAncestorContainer(range))

\* MessageBubble.isSelectionInMessage: the elements of range.cloneContents()
\* are copies outside the document, which the message element never contains,
\* so the loop returns nothing and the boundary test decides.
IsSelectionInMessage(range) ==
  Contains(range.startContainer) \/ Contains(range.endContainer)

\* ------------------------------------------------------------ ChatInterface
NewClarification(id, messageId, selectedText) ==
  [id |-> id, messageId |-> messageId, selectedText |-> selectedText,
   request |-> << >>, response |-> Undefined, status |-> "pending"]

Find(list, clarificationId) ==
  IF \E i \in 1..Len(list) : list[i].id = clarificationId
  THEN list[CHOOSE i \in 1..Len(list) :
              /\ list[i].id = clarificationId
              /\ \A j \in 1..(i - 1) : list[j].id # clarificationId]
  ELSE Null

\* Mutant: the submit writes the request into the selected text.
MarkPendingSelectedText(list, clarificationId, req) ==
  LET upd(c) == IF c.id = clarificationId
                THEN [c EXCEPT !.status = "pending", !.selectedText = req]
                ELSE c
  IN MapSeq(upd, list)

MarkPending(list, clarificationId, req) ==
  LET upd(c) == IF c.id = clarificationId
                THEN [c EXCEPT !.status = "pending", !.request = req]
                ELSE c
  IN MapSeq(upd, list)

\* Mutant: the success update forgets the response.
MarkCompletedNoResponse(list, clarificationId, response) ==
  LET upd(c) == IF c.id = clarificationId
                THEN [c EXCEPT !.status = "completed"]
                ELSE c
  IN MapSeq(upd, list)

MarkCompleted(list, clarificationId, response) ==
  LET upd(c) == IF c.id = clarificationId
                THEN [c EXCEPT !.response = response, !.status = "completed"]
                ELSE c
  IN MapSeq(upd, list)

\* Mutant: the catch block drops the clarification whose call failed.
MarkErrorRemove(list, clarificationId) ==
  SelectSeq(list, LAMBDA c : c.id # clarificationId)

MarkError(list, clarificationId) ==
  LET upd(c) == IF c.id = clarificationId
                THEN [c EXCEPT !.response = ErrorResponse, !.status = "completed"]
                ELSE c
  IN MapSeq(upd, list)

\* The object handleClarificationSubmit found and closes over.  Its continuation
\* reads it only in { ...clarification, response, status }, which overrides
\* response and status: the call keeps the fields that can be read.
Captured(c) ==
  [id |-> c.id, messageId |-> c.messageId, selectedText |-> c.selectedText,
   request |-> c.request]

\* Mutant: the completion makes the completed clarification the active one.
UpdateActiveAlways(prev, clarificationId, clarification, response) ==
  [id |-> clarification.id, messageId |-> clarification.messageId,
   selectedText |-> clarification.selectedText,
   request |-> clarification.request,
   response |-> response, status |-> "completed"]

UpdateActive(prev, clarificationId, clarification, response) ==
  IF prev # Null /\ prev.id = clarificationId
  THEN [id |-> clarification.id, messageId |-> clarification.messageId,
        selectedText |-> clarification.selectedText,
        request |-> clarification.request,
        response |-> response, status |-> "completed"]
  ELSE prev

\* ------------------------------------------------------ /api/clarify route
GenerateClarificationResponse(content) ==
  IF content = GeneratorThrows THEN [threw |-> TRUE, value |-> Undefined]
  ELSE [threw |-> FALSE,
        value |-> IF content # "" THEN content ELSE FallbackResponse]

POST(selectedText, userQuestion, content) ==
  IF ~Truthy(selectedText) \/ ~Truthy(userQuestion)
  THEN [status |-> 400, response |-> Undefined]
  ELSE LET r == GenerateClarificationResponse(content)
       IN IF r.threw THEN [status |-> 500, response |-> Undefined]
          ELSE [status |-> 200, response |-> r.value]

ResponseOk(res) == res.status \in 200..299

\* 'property' in object
Has(object, property) == property \in DOMAIN object

Bodies ==
  {[field \in fields |-> object[field]] :
     object \in [selectedText : FieldValues, userQuestion : FieldValues,
                 conversationContext : Contexts],
     fields \in SUBSET {"selectedText", "userQuestion", "conversationContext"}}
  \cup {Null, Unparsable}

\* !body.field for a field that is absent (undefined) or a string.
Falsy(body, field) == ~Has(body, field) \/ body[field] = << >>

\* Whether the route gets as far as calling generateClarificationResponse:
\* request.json() and the destructuring of its value succeed, and both
\* fields are truthy.
GeneratorCalled(body) ==
  /\ body \notin {Null, Unparsable}
  /\ ~Falsy(body, "selectedText")
  /\ ~Falsy(body, "userQuestion")

\* The route for any body: request.json() rejects for a body that is not
\* JSON and destructuring null throws, both inside the try block.
Route(body, content) ==
  IF body \in {Null, Unparsable} THEN [status |-> 500, response |-> Undefined]
  ELSE IF Falsy(body, "selectedText") \/ Falsy(body, "userQuestion")
  THEN [status |-> 400, response |-> Undefined]
  ELSE POST(body.selectedText, body.userQuestion, content)

\* ------------------------------------------------------------------- calls
Call(op, id, reported) == [op |-> op, id |-> id, reported |-> reported]

Init ==
  /\ now = 0
  /\ clarifications = << >>
  /\ activeClarification = Null
  /\ request = << >>
  /\ inFlight = EmptyBag
  /\ lastCall = Call("none", 0, FALSE)
  /\ directCalls = 0
  /\ messages = InitialMessages
  /\ isLoading = FALSE
  /\ inputValue = << >>
  /\ chatInFlight = 0
  /\ selection = Null
  /\ selectionRangeRef = Null
  /\ selected = << >>
  /\ showClarifyButton = FALSE
  /\ buttonPosition = [top |-> 0, left |-> 0]
  /\ isClarifyingRef = FALSE
  /\ deferred = << >>
  /\ innerWidth = 1024
  /\ timeouts = EmptyBag
  /\ sinceEvent = DebounceDelay
  /\ burst = 0
  /\ bubbleSelectedText = << >>
  /\ showContextMenu = FALSE
  /\ served = Null

\* Date.now(): the value read is the value read before (two reads within the
\* clock's resolution) or a later one.  Ids are only compared for equality, so
\* every later value is represented by the next one.
DateNow == IF now = 0 THEN {1} ELSE {now, now + 1}

\* Mutant: the new clarification replaces the list instead of extending it.
HandleTextSelectionReplace(messageId, selectedText) ==
  /\ Len(clarifications) < MaxClarifications
  /\ \E t \in DateNow :
        LET clarification == NewClarification(t, messageId, selectedText)
        IN /\ clarifications' = <<clarification>>
           /\ activeClarification' = clarification
           /\ now' = t
           /\ lastCall' = Call("handleTextSelection", t, FALSE)
  /\ UNCHANGED <<request, inFlight, directCalls, chatVars, selVars, pageVars>>

\* The body of handleTextSelection.
TextSelectionEffect(messageId, selectedText) ==
  /\ Len(clarifications) < MaxClarifications
  /\ \E t \in DateNow :
        LET clarification == NewClarification(t, messageId, selectedText)
        IN /\ clarifications' = Append(clarifications, clarification)
           /\ activeClarification' = clarification
           /\ now' = t
           /\ lastCall' = Call("handleTextSelection", t, FALSE)

HandleTextSelection(messageId, selectedText) ==
  /\ TextSelectionEffect(messageId, selectedText)
  /\ UNCHANGED <<request, inFlight, directCalls, chatVars, selVars, pageVars>>

\* `${m.role}: ${m.content}`
ContextLine(m) == <<m.role, ": ", m.content>>

\* conversationContext: the last five messages, each as one line.
ConversationContext(msgs) == MapSeq(ContextLine, SliceFromEnd(msgs, 5))

\* A fetch('/api/clarify') that has not settled yet, with what its
\* continuation closes over (the id, the object found and the request) and
\* the context its body carries.  The calls in flight are a bag: they settle
\* in any order.
Fetch(clarificationId, clarification, req, conversationContext) ==
  [clarificationId |-> clarificationId, clarification |-> clarification,
   request |-> req, conversationContext |-> conversationContext]

\* Mutant: the early return for an id that is not found is missing.
SubmitEffectNoFind(clarificationId, req, op) ==
  LET clarification == Find(clarifications, clarificationId)
      captured == IF clarification = Null
                  THEN [id |-> clarificationId, messageId |-> "",
                        selectedText |-> << >>, request |-> << >>]
                  ELSE Captured(clarification)
  IN /\ BagCardinality(inFlight) < MaxInFlight
     /\ clarifications' = MarkPending(clarifications, clarificationId, req)
     /\ inFlight' = inFlight (+) SetToBag({Fetch(clarificationId, captured, req,
                                                 ConversationContext(messages))})
     /\ lastCall' = Call(op, clarificationId, FALSE)

\* The body of handleClarificationSubmit up to its first await.
SubmitEffect(clarificationId, req, op) ==
  LET clarification == Find(clarifications, clarificationId)
  IN IF clarification = Null
     THEN /\ lastCall' = Call(op, clarificationId, FALSE)
          /\ UNCHANGED <<clarifications, inFlight>>
     ELSE /\ BagCardinality(inFlight) < MaxInFlight
          /\ clarifications' = MarkPending(clarifications, clarificationId, req)
          /\ inFlight' = inFlight (+) SetToBag({Fetch(clarificationId,
                                                      Captured(clarification),
                                                      req,
                                                      ConversationContext(messages))})
          /\ lastCall' = Call(op, clarificationId, FALSE)

\* handleClarificationSubmit called with arguments of the caller's choice
\* (the panel only ever passes the active id and a non-blank request).
HandleClarificationSubmit(clarificationId, req) ==
  /\ directCalls < MaxDirectCalls
  /\ directCalls' = directCalls + 1
  /\ SubmitEffect(clarificationId, req, "handleClarificationSubmit")
  /\ UNCHANGED <<now, activeClarification, request, chatVars, selVars, pageVars>>

\* ClarificationPanel: the textarea's onChange.
SetRequest(value) ==
  /\ activeClarification # Null
  /\ value # request
  /\ request' = value
  /\ lastCall' = Call("setRequest", 0, FALSE)
  /\ UNCHANGED <<now, clarifications, activeClarification, inFlight, directCalls,
               chatVars, selVars, pageVars>>

\* Mutant: the panel tests the request without trimming it.
HandleSubmitNoTrim(op) ==
  IF Truthy(request)
  THEN /\ SubmitEffect(activeClarification.id, request, op)
       /\ request' = << >>
       /\ UNCHANGED <<now, activeClarification>>
  ELSE /\ lastCall' = Call(op, activeClarification.id, FALSE)
       /\ UNCHANGED <<now, clarifications, activeClarification, request, inFlight>>

\* ClarificationPanel.handleSubmit, reached from the button or the Enter key.
HandleSubmit(op) ==
  IF Truthy(Trim(request))
  THEN /\ SubmitEffect(activeClarification.id, request, op)
       /\ request' = << >>
       /\ UNCHANGED <<now, activeClarification>>
  ELSE /\ lastCall' = Call(op, activeClarification.id, FALSE)
       /\ UNCHANGED <<now, clarifications, activeClarification, request, inFlight>>

ButtonDisabled ==
  ~Truthy(Trim(request)) \/ activeClarification.status = "pending"

ClickSubmit ==
  /\ activeClarification # Null
  /\ ~ButtonDisabled
  /\ HandleSubmit("click")
  /\ UNCHANGED <<directCalls, chatVars, selVars, pageVars>>

HandleKeyPress ==
  /\ activeClarification # Null
  /\ HandleSubmit("enter")
  /\ UNCHANGED <<directCalls, chatVars, selVars, pageVars>>

\* The continuation of handleClarificationSubmit after fetch resolved.
FetchResolves(call, content) ==
  /\ BagIn(call, inFlight)
  /\ LET res == POST(call.clarification.selectedText, call.request, content)
     IN IF ResponseOk(res)
        THEN /\ clarifications' =
                  MarkCompleted(clarifications, call.clarificationId, res.response)
             /\ activeClarification' =
                  UpdateActive(activeClarification, call.clarificationId,
                               call.clarification, res.response)
             /\ lastCall' = Call("success", call.clarificationId, FALSE)
        ELSE /\ clarifications' = MarkError(clarifications, call.clarificationId)
             /\ activeClarification' = activeClarification
             /\ lastCall' = Call("failure", call.clarificationId, TRUE)
  /\ inFlight' = inFlight (-) SetToBag({call})
  /\ UNCHANGED <<now, request, directCalls, chatVars, selVars, pageVars>>

\* Mutant: the catch block leaves the clarification as it is.
FetchRejectsNoUpdate(call) ==
  /\ BagIn(call, inFlight)
  /\ lastCall' = Call("failure", call.clarificationId, TRUE)
  /\ inFlight' = inFlight (-) SetToBag({call})
  /\ UNCHANGED <<now, clarifications, activeClarification, request, directCalls,
                 chatVars, selVars, pageVars>>

\* fetch itself rejected (transport error): the catch block runs.
FetchRejects(call) ==
  /\ BagIn(call, inFlight)
  /\ clarifications' = MarkError(clarifications, call.clarificationId)
  /\ lastCall' = Call("failure", call.clarificationId, TRUE)
  /\ inFlight' = inFlight (-) SetToBag({call})
  /\ UNCHANGED <<now, activeClarification, request, directCalls, chatVars, selVars, pageVars>>

\* Mutant: closing also drops the closed clarification from the list.
HandleCloseClarificationRemove ==
  /\ activeClarification # Null
  /\ activeClarification' = Null
  /\ clarifications' =
        SelectSeq(clarifications, LAMBDA c : c.id # activeClarification.id)
  /\ lastCall' = Call("handleCloseClarification", 0, FALSE)
  /\ UNCHANGED <<now, request, inFlight, directCalls, chatVars, selVars, pageVars>>

HandleCloseClarification ==
  /\ activeClarification # Null
  /\ activeClarification' = Null
  /\ lastCall' = Call("handleCloseClarification", 0, FALSE)
  /\ UNCHANGED <<now, clarifications, request, inFlight, directCalls, chatVars,
               selVars, pageVars>>

\* The endpoint answers a request; served keeps the exchange: the body, what
\* the generator did if it was called, and the answer.
ClarifyRoute(body, content) ==
  /\ served' = [body |-> body,
                generator |-> IF GeneratorCalled(body) THEN content
                              ELSE "not called",
                res |-> Route(body, content)]
  /\ served' # served
  /\ lastCall' = Call("POST", 0, ~ResponseOk(Route(body, content)))
  /\ UNCHANGED <<now, clarifications, activeClarification, request, inFlight,
                 directCalls, chatVars, selVars, innerWidth, bubbleVars>>

\* ------------------------------------------------------------ presentation
\* The user resizes the window.  No component listens to it.
Resize(width) ==
  /\ width # innerWidth
  /\ innerWidth' = width
  /\ lastCall' = Call("resize", 0, FALSE)
  /\ UNCHANGED <<now, clarifications, activeClarification, request, inFlight,
                 directCalls, chatVars, selVars, bubbleVars, served>>

\* Mutant: below 768 px an overlay is mounted next to the panel.
SurfacesBothWhenNarrow(width) ==
  IF width < 768 THEN {"panel", "overlay"} ELSE {"panel"}

\* The presentations ChatInterface's render mounts in a window of this width:
\* ClarificationPanel, unconditionally; the repository has no overlay.
Surfaces(width) == {"panel"}

\* The props a mounted presentation is given.
SurfaceProps(surface) ==
  [clarification |-> activeClarification,
   onClose |-> "handleCloseClarification",
   onSubmit |-> "handleClarificationSubmit"]

\* --------------------------------------------------------------------- chat
\* The chat input's onChange; the input is disabled while a reply is awaited.
SetInputValue(value) ==
  /\ ~isLoading
  /\ value # inputValue
  /\ inputValue' = value
  /\ lastCall' = Call("setInputValue", 0, FALSE)
  /\ UNCHANGED <<now, clarifications, activeClarification, request, inFlight,
                 directCalls, messages, isLoading, chatInFlight, selVars,
                 pageVars>>

\* Mutant: handleSendMessage without its early return.
SendIgnoredNever == FALSE

\* The condition of handleSendMessage's early return.
SendIgnored == ~Truthy(Trim(inputValue)) \/ isLoading

\* handleSendMessage up to its await, reached from the Enter key or the send
\* button.  With a blank input or while a reply is awaited it returns at once
\* and changes nothing.  The id and timestamp of a message are read by no
\* handler below and are not kept.
HandleSendMessage ==
  /\ IF SendIgnored
     THEN /\ lastCall' = Call("handleSendMessage:ignored", 0, FALSE)
          /\ UNCHANGED chatVars
     ELSE /\ Len(messages) + 2 <= MaxMessages
          /\ messages' =
               Append(messages, [role |-> "user", content |-> inputValue])
          /\ inputValue' = << >>
          /\ isLoading' = TRUE
          /\ chatInFlight' = chatInFlight + 1
          /\ lastCall' = Call("handleSendMessage", 0, FALSE)
  /\ UNCHANGED <<now, clarifications, activeClarification, request, inFlight,
                 directCalls, selVars, pageVars>>

\* The continuation of handleSendMessage: /api/chat answered with a reply.
ChatResolves(response) ==
  /\ chatInFlight > 0
  /\ chatInFlight' = chatInFlight - 1
  /\ messages' = Append(messages, [role |-> "assistant", content |-> response])
  /\ isLoading' = FALSE
  /\ lastCall' = Call("chatResolves", 0, FALSE)
  /\ UNCHANGED <<now, clarifications, activeClarification, request, inFlight,
                 directCalls, inputValue, selVars, pageVars>>

\* Mutant: the catch block reports the error and the finally block is missing.
ChatRejectsStaysLoading ==
  /\ chatInFlight > 0
  /\ chatInFlight' = chatInFlight - 1
  /\ messages' = Append(messages,
                        [role |-> "assistant", content |-> ChatErrorText])
  /\ lastCall' = Call("chatRejects", 0, TRUE)
  /\ UNCHANGED <<now, clarifications, activeClarification, request, inFlight,
                 directCalls, isLoading, inputValue, selVars, pageVars>>

\* The fetch rejected or the answer was not OK: the catch block.
ChatRejects ==
  /\ chatInFlight > 0
  /\ chatInFlight' = chatInFlight - 1
  /\ messages' = Append(messages,
                        [role |-> "assistant", content |-> ChatErrorText])
  /\ isLoading' = FALSE
  /\ lastCall' = Call("chatRejects", 0, TRUE)
  /\ UNCHANGED <<now, clarifications, activeClarification, request, inFlight,
                 directCalls, inputValue, selVars, pageVars>>

\* ---------------------------------------------------------------- AIMessage
\* The user changes the document selection (or removes it: rangeCount = 0).
Select(range) ==
  /\ selection # range
  /\ selection' = range
  /\ lastCall' = Call("select", 0, FALSE)
  /\ UNCHANGED <<now, clarifications, activeClarification, request, inFlight,
                 directCalls, chatVars, aiVars, pageVars>>

\* Lengths computed from the rectangles are counted in half pixels, so that
\* rect.height / 2 is exact for every whole number of pixels.
Px(n) == 2 * n

HalfOf(n) == n

\* Mutant: the button is put at the top of the selection, not at its centre.
ButtonPositionTop(rect, containerRect, contentRect) ==
  [top |-> Px(rect.top) - Px(containerRect.top),
   left |-> Px(contentRect.right - containerRect.left) + Px(12)]

\* The position handed to setButtonPosition.
ButtonPosition(rect, containerRect, contentRect) ==
  LET marginOffset == 12
      selectionCenterY ==
        Px(rect.top) + HalfOf(rect.height) - Px(containerRect.top)
      contentRightEdgeRelativeToContainer ==
        contentRect.right - containerRect.left
  IN [top |-> selectionCenterY,
      left |-> Px(contentRightEdgeRelativeToContainer) + Px(marginOffset)]

\* Lines 81-118: the try block and its catch, after the selection was
\* accepted and the button set to show.
PositionButton(layout) ==
  IF layout.throws = "never"
  THEN IF layout.contentRect = Null
       THEN /\ showClarifyButton' = FALSE
            /\ buttonPosition' = buttonPosition
            /\ lastCall' = Call("processSelection", 0, FALSE)
       ELSE /\ showClarifyButton' = TRUE
            /\ buttonPosition' =
                 ButtonPosition(layout.rect, layout.containerRect,
                                layout.contentRect)
            /\ lastCall' = Call("processSelection", 0, FALSE)
  ELSE IF layout.throws = "catch"
  THEN /\ showClarifyButton' = TRUE
       /\ buttonPosition' = buttonPosition
       /\ lastCall' = Call("processSelection:uncaught", 0, TRUE)
  ELSE IF layout.contentRect = Null
  THEN /\ showClarifyButton' = FALSE
       /\ buttonPosition' = buttonPosition
       /\ lastCall' = Call("processSelection", 0, TRUE)
  ELSE /\ showClarifyButton' = TRUE
       /\ buttonPosition' =
            ButtonPosition(layout.rect, layout.containerRect,
                           layout.contentRect)
       /\ lastCall' = Call("processSelection", 0, TRUE)

\* Mutant: the selection's text is kept as selected, without trim().
ProcessSelectionNoTrim(layout) ==
  IF selection = Null
  THEN /\ selected' = << >>
       /\ showClarifyButton' = FALSE
       /\ selectionRangeRef' = Null
       /\ lastCall' = Call("processSelection", 0, FALSE)
       /\ UNCHANGED buttonPosition
  ELSE IF \/ ~Truthy(SelectionToString(selection))
          \/ layout.containerRect = Null
          \/ ~IsInMessage(selection)
  THEN /\ selected' = << >>
       /\ showClarifyButton' = FALSE
       /\ selectionRangeRef' = selectionRangeRef
       /\ lastCall' = Call("processSelection", 0, FALSE)
       /\ UNCHANGED buttonPosition
  ELSE /\ selectionRangeRef' = selection
       /\ selected' = SelectionToString(selection)
       /\ PositionButton(layout)

\* What the callback deferred by handleMouseUp does with the selection as it
\* is when the callback runs; layout is what getBoundingClientRect returns
\* (containerRect is Null when messageRef.current is).
ProcessSelection(layout) ==
  IF selection = Null
  THEN /\ selected' = << >>
       /\ showClarifyButton' = FALSE
       /\ selectionRangeRef' = Null
       /\ lastCall' = Call("processSelection", 0, FALSE)
       /\ UNCHANGED buttonPosition
  ELSE IF \/ ~Truthy(Trim(SelectionToString(selection)))
          \/ layout.containerRect = Null
          \/ ~IsInMessage(selection)
  THEN /\ selected' = << >>
       /\ showClarifyButton' = FALSE
       /\ selectionRangeRef' = selectionRangeRef
       /\ lastCall' = Call("processSelection", 0, FALSE)
       /\ UNCHANGED buttonPosition
  ELSE /\ selectionRangeRef' = selection
       /\ selected' = Trim(SelectionToString(selection))
       /\ PositionButton(layout)

\* The document's mouseup listener: a mouseup on the Clarify button, or while
\* a Clarify click is being handled, returns at once; any other defers the
\* processing of the selection with setTimeout(0).
HandleMouseUp(onClarifyButton) ==
  /\ IF onClarifyButton \/ isClarifyingRef
     THEN /\ lastCall' = Call("handleMouseUp:ignored", 0, FALSE)
          /\ UNCHANGED deferred
     ELSE /\ Len(deferred) < MaxDeferred
          /\ lastCall' = Call("handleMouseUp", 0, FALSE)
          /\ deferred' = Append(deferred, [task |-> "process"])
  /\ UNCHANGED <<now, clarifications, activeClarification, request, inFlight,
                 directCalls, chatVars, selection, selectionRangeRef, selected,
                 showClarifyButton, buttonPosition, isClarifyingRef, pageVars>>

\* The oldest deferred callback runs, and it is one of handleMouseUp.
ProcessTimeout(layout) ==
  /\ deferred # << >>
  /\ Head(deferred).task = "process"
  /\ deferred' = Tail(deferred)
  /\ ProcessSelection(layout)
  /\ UNCHANGED <<now, clarifications, activeClarification, request, inFlight,
                 directCalls, chatVars, selection, isClarifyingRef, pageVars>>

\* The oldest deferred callback runs, and it is the one of handleClarify.
RestoreTimeout ==
  /\ deferred # << >>
  /\ Head(deferred).task = "restore"
  /\ deferred' = Tail(deferred)
  /\ selection' = IF Head(deferred).rangeToRestore # Null
                  THEN Head(deferred).rangeToRestore
                  ELSE selection
  /\ isClarifyingRef' = FALSE
  /\ lastCall' = Call("restoreSelection", 0, FALSE)
  /\ UNCHANGED <<now, clarifications, activeClarification, request, inFlight,
                 directCalls, chatVars, selectionRangeRef, selected,
                 showClarifyButton, buttonPosition, pageVars>>

\* A click on the Clarify button, which is rendered while showClarifyButton
\* and selectedText are set; the restoring of the selection is deferred.
HandleClarify ==
  /\ showClarifyButton
  /\ Truthy(selected)
  /\ Len(deferred) < MaxDeferred
  /\ isClarifyingRef' = TRUE
  /\ LET rangeToRestore ==
           IF selection # Null THEN selection ELSE selectionRangeRef
     IN deferred' = Append(deferred, [task |-> "restore",
                                      rangeToRestore |-> rangeToRestore])
  /\ TextSelectionEffect(MessageId, selected)
  /\ showClarifyButton' = FALSE
  /\ selected' = << >>
  /\ UNCHANGED <<request, inFlight, directCalls, chatVars, selection,
                 selectionRangeRef, buttonPosition, pageVars>>

\* ------------------------------------------------------------ MessageBubble
Min(a, b) == IF a <= b THEN a ELSE b

\* Mutant: handleSelection does not clear the timeout it set before.
ClearTimeoutNothing(pending) == pending

\* clearTimeout(selectionTimeout): selectionTimeout is the timeout set last,
\* the one with the most time left if it has not run yet.
ClearTimeout(pending) ==
  IF pending = EmptyBag THEN pending
  ELSE pending (-) SetToBag({CHOOSE r \in BagToSet(pending) :
                               \A q \in BagToSet(pending) : q <= r})

\* handleSelection, the document's selectionchange listener: it only replaces
\* the pending timeout.
SelectionChangeEffect ==
  /\ timeouts' = ClearTimeout(timeouts) (+) SetToBag({DebounceDelay})
  /\ burst' = IF sinceEvent < DebounceDelay THEN Min(burst + 1, 2) ELSE 1
  /\ sinceEvent' = 0

\* The user changes the document selection and selectionchange is fired.
HandleSelection(range) ==
  /\ selection # range
  /\ selection' = range
  /\ SelectionChangeEffect
  /\ lastCall' = Call("handleSelection", 0, FALSE)
  /\ UNCHANGED <<now, clarifications, activeClarification, request, inFlight,
                 directCalls, chatVars, aiVars, innerWidth, served,
                 bubbleSelectedText, showContextMenu>>

\* TickMs milliseconds pass; a timeout that is due runs first.
Tick ==
  /\ 0 \notin BagToSet(timeouts)
  /\ timeouts # EmptyBag \/ sinceEvent < DebounceDelay
  /\ timeouts' = IF timeouts = EmptyBag THEN EmptyBag
                 ELSE [r \in {q - TickMs : q \in BagToSet(timeouts)} |->
                         timeouts[r + TickMs]]
  /\ sinceEvent' = Min(sinceEvent + TickMs, DebounceDelay)
  /\ lastCall' = Call("tick", 0, FALSE)
  /\ UNCHANGED <<now, clarifications, activeClarification, request, inFlight,
                 directCalls, chatVars, selVars, innerWidth, served, burst,
                 bubbleSelectedText, showContextMenu>>

\* The callback of the timeout: it shows the context menu for a selection
\* with text in this message and otherwise leaves the menu as it is.
SelectionTimeout ==
  /\ BagIn(0, timeouts)
  /\ timeouts' = timeouts (-) SetToBag({0})
  /\ IF /\ selection # Null
        /\ Truthy(Trim(SelectionToString(selection)))
        /\ IsSelectionInMessage(selection)
     THEN /\ bubbleSelectedText' = Trim(SelectionToString(selection))
          /\ showContextMenu' = TRUE
     ELSE UNCHANGED <<bubbleSelectedText, showContextMenu>>
  /\ lastCall' = Call("selectionTimeout", 0, FALSE)
  /\ UNCHANGED <<now, clarifications, activeClarification, request, inFlight,
                 directCalls, chatVars, selVars, innerWidth, served, sinceEvent, burst>>

\* handleClick, the document's click listener, for a click inside the message
\* or outside of it; a click on the context menu is MessageBubbleHandleClarify.
HandleClick(target) ==
  /\ IF target = "message"
     THEN UNCHANGED <<bubbleSelectedText, showContextMenu>>
     ELSE /\ showContextMenu' = FALSE
          /\ bubbleSelectedText' = << >>
  /\ lastCall' = Call("handleClick", 0, FALSE)
  /\ UNCHANGED <<now, clarifications, activeClarification, request, inFlight,
                 directCalls, chatVars, selVars, innerWidth, served, timeouts,
                 sinceEvent, burst>>

\* MessageBubble.handleClarify, the click on the context menu's button, which
\* is rendered while showContextMenu and selectedText are set; removeAllRanges
\* fires selectionchange if there was a selection.
MessageBubbleHandleClarify ==
  /\ showContextMenu
  /\ Truthy(bubbleSelectedText)
  /\ TextSelectionEffect(MessageId, bubbleSelectedText)
  /\ showContextMenu' = FALSE
  /\ bubbleSelectedText' = << >>
  /\ selection' = Null
  /\ IF selection # Null THEN SelectionChangeEffect
     ELSE UNCHANGED <<timeouts, sinceEvent, burst>>
  /\ UNCHANGED <<request, inFlight, directCalls, chatVars, aiVars, innerWidth, served>>

Next ==
  \/ \E m \in MessageIds, t \in SelectedTexts : HandleTextSelection(m, t)
  \/ \E v \in Requests : SetRequest(v)
  \/ ClickSubmit
  \/ HandleKeyPress
  \/ \E call \in BagToSet(inFlight), c \in OpenAIContents \cup {GeneratorThrows} :
        FetchResolves(call, c)
  \/ \E call \in BagToSet(inFlight) : FetchRejects(call)
  \/ HandleCloseClarification

Spec == Init /\ [][Next]_vars

\* The handlers of ChatInterface called directly, with any arguments, next to
\* the panel; the store of these runs has its own bound.  A backend call of
\* these runs ends in one of two ways: an answer or a rejection.
NextStore ==
  \/ /\ Len(clarifications) < MaxStoreClarifications
     /\ \E m \in MessageIds, t \in SelectedTexts : HandleTextSelection(m, t)
  \/ \E v \in Requests : SetRequest(v)
  \/ ClickSubmit
  \/ HandleKeyPress
  \/ \E call \in BagToSet(inFlight) : FetchResolves(call, "t1")
  \/ \E call \in BagToSet(inFlight) : FetchRejects(call)
  \/ HandleCloseClarification
  \/ \E id \in ClockValues, r \in Requests : HandleClarificationSubmit(id, r)

SpecStore == Init /\ [][NextStore]_vars

\* The clarification lifecycle next to the chat, on the smaller store.
NextChat ==
  \/ /\ Len(clarifications) < MaxStoreClarifications
     /\ \E m \in MessageIds, t \in SelectedTexts : HandleTextSelection(m, t)
  \/ \E v \in Requests : SetRequest(v)
  \/ ClickSubmit
  \/ HandleKeyPress
  \/ \E call \in BagToSet(inFlight), c \in OpenAIContents \cup {GeneratorThrows} :
        FetchResolves(call, c)
  \/ \E call \in BagToSet(inFlight) : FetchRejects(call)
  \/ HandleCloseClarification
  \/ \E value \in ChatInputs : SetInputValue(value)
  \/ HandleSendMessage
  \/ \E response \in ChatReplies : ChatResolves(response)
  \/ ChatRejects

SpecChat == Init /\ [][NextChat]_vars

\* The chat itself: typing and sending next to the creating and closing of
\* clarifications.
NextSend ==
  \/ \E value \in Requests : SetInputValue(value)
  \/ HandleSendMessage
  \/ \E response \in ChatReplies : ChatResolves(response)
  \/ ChatRejects
  \/ \E m \in MessageIds, t \in SelectedTexts : HandleTextSelection(m, t)
  \/ HandleCloseClarification

SpecSend == Init /\ [][NextSend]_vars

\* The promise of fetch('/api/chat') settles: a reply, or the catch block.
ChatSettles ==
  \/ \E response \in ChatReplies : ChatResolves(response)
  \/ ChatRejects

\* The chat when every request to /api/chat eventually settles.
SpecSendLive == Init /\ [][NextSend]_vars /\ WF_vars(ChatSettles)

\* Selecting text in message '1' and promoting it with the Clarify button.
NextSelection ==
  \/ \E range \in Ranges \cup {Null} : Select(range)
  \/ \E onClarifyButton \in BOOLEAN : HandleMouseUp(onClarifyButton)
  \/ \E layout \in LaidOut : ProcessTimeout(layout)
  \/ RestoreTimeout
  \/ /\ Len(clarifications) < MaxStoreClarifications
     /\ HandleClarify
  \/ HandleCloseClarification

SpecSelection == Init /\ [][NextSelection]_vars

\* Placing the Clarify button for every layout the callback can meet.
NextPosition ==
  \/ \E range \in {Range("message", 23, "message", 45),
                    Range("message", 19, "message", 20), Null} : Select(range)
  \/ \E onClarifyButton \in BOOLEAN : HandleMouseUp(onClarifyButton)
  \/ \E layout \in Layouts : ProcessTimeout(layout)

SpecPosition == Init /\ [][NextPosition]_vars

\* The clarification lifecycle in a window that is resized.
NextSurface ==
  \/ /\ Len(clarifications) < MaxStoreClarifications
     /\ \E m \in MessageIds, t \in SelectedTexts : HandleTextSelection(m, t)
  \/ \E v \in Requests : SetRequest(v)
  \/ ClickSubmit
  \/ HandleKeyPress
  \/ \E call \in BagToSet(inFlight), c \in OpenAIContents \cup {GeneratorThrows} :
        FetchResolves(call, c)
  \/ \E call \in BagToSet(inFlight) : FetchRejects(call)
  \/ HandleCloseClarification
  \/ \E width \in Viewports : Resize(width)

SpecSurface == Init /\ [][NextSurface]_vars

\* Every fetch('/api/clarify') that can be in flight while no message is
\* sent: the object captured is the one found under the id submitted.
Calls ==
  {Fetch(id, [id |-> id, messageId |-> m, selectedText |-> t, request |-> old],
         req, ConversationContext(InitialMessages)) :
     id \in ClockValues, m \in MessageIds, t \in SelectedTexts,
     old \in Requests, req \in Requests}

\* The promise of a call settles: the endpoint answers or the fetch rejects.
Settle(call) ==
  \/ \E c \in OpenAIContents \cup {GeneratorThrows} : FetchResolves(call, c)
  \/ FetchRejects(call)

\* The clarification lifecycle when every backend call eventually resolves or
\* rejects.
NextLive ==
  \/ /\ Len(clarifications) < MaxStoreClarifications
     /\ \E m \in MessageIds, t \in SelectedTexts : HandleTextSelection(m, t)
  \/ \E v \in Requests : SetRequest(v)
  \/ ClickSubmit
  \/ HandleKeyPress
  \/ \E call \in Calls : Settle(call)
  \/ HandleCloseClarification

SpecLive ==
  Init /\ [][NextLive]_vars /\ \A call \in Calls : WF_vars(Settle(call))

\* Selecting text in a MessageBubble and promoting it with its context menu.
NextBubble ==
  \/ \E range \in Ranges \cup {Null} : HandleSelection(range)
  \/ Tick
  \/ SelectionTimeout
  \/ \E target \in {"message", "outside"} : HandleClick(target)
  \/ /\ Len(clarifications) < MaxStoreClarifications
     /\ MessageBubbleHandleClarify
  \/ HandleCloseClarification

SpecBubble == Init /\ [][NextBubble]_vars

\* The clarification lifecycle for selections of different texts and requests
\* of different wording.
NextAnchors ==
  \/ \E m \in MessageIds, t \in AnchorTexts : HandleTextSelection(m, t)
  \/ \E v \in Questions : SetRequest(v)
  \/ ClickSubmit
  \/ HandleKeyPress
  \/ \E call \in BagToSet(inFlight), c \in OpenAIContents \cup {GeneratorThrows} :
        FetchResolves(call, c)
  \/ \E call \in BagToSet(inFlight) : FetchRejects(call)
  \/ HandleCloseClarification

SpecAnchors == Init /\ [][NextAnchors]_vars

\* The /api/clarify endpoint serving requests of any client.
NextRoute ==
  \E body \in Bodies, content \in OpenAIContents \cup {GeneratorThrows} :
     ClarifyRoute(body, content)

SpecRoute == Init /\ [][NextRoute]_vars

TypeOK ==
  /\ now \in ClockValues \cup {0}
  /\ Len(clarifications) <= MaxClarifications
  /\ \A i \in 1..Len(clarifications) :
        clarifications[i].status \in {"pending", "completed"}
  /\ BagCardinality(inFlight) <= MaxInFlight

\* ------------------------------------------------------------ vocabulary
\* The spec's four statuses in the words of the code and of its technical
\* specification: 'pending' is the status at creation ("created");
\* 'completed' is "completed"; "submitting" ('processing') and "failed"
\* ('error') are the other two.
Created == "pending"
Completed == "completed"
Failed == "failed"

SubmitOps == {"click", "enter", "handleClarificationSubmit"}

Indices == 1..Len(clarifications)

Lifecycle(c) == <<c.status, c.request, c.response>>

Anchor(c) == <<c.messageId, c.selectedText>>

Known(id) == \E i \in Indices : clarifications[i].id = id

IsActive(i) ==
  activeClarification # Null /\ clarifications[i].id = activeClarification.id

DistinctIds ==
  \A i \in Indices, j \in Indices :
     i # j => clarifications[i].id # clarifications[j].id

ActiveId == IF activeClarification = Null THEN 0 ELSE activeClarification.id

\* A submit was accepted in this step: a call was added to those in flight.
Accepted == BagCardinality(inFlight') = BagCardinality(inFlight) + 1

\* The request of the call this step added to those in flight.
AcceptedRequest ==
  (CHOOSE call \in BagToSet(inFlight') :
      CopiesIn(call, inFlight') = CopiesIn(call, inFlight) + 1).request

\* The phase of clarification c read the way most favourable to the code: a
\* rejection is "failed" although the status stored is 'completed', and
\* 'pending' is "created" before the first request and "submitting" after.
Phase(c) ==
  IF c.status = "pending"
  THEN IF c.request = << >> /\ c.response = Undefined THEN "created"
       ELSE "submitting"
  ELSE IF c.response = ErrorResponse THEN "failed" ELSE "completed"

Transitions ==
  {<<"created", "submitting">>, <<"submitting", "completed">>,
   <<"submitting", "failed">>, <<"failed", "submitting">>}

\* ------------------------------------------------------------------ claims

\* C1: a submit, success or failure applied to clarification A leaves the
\* status, request and response of every other clarification B of the store
\* unchanged.
C1_OthersUntouched ==
  [][\A a \in Indices, b \in Indices :
       (/\ a # b
        /\ lastCall'.op \in SubmitOps \cup {"success", "failure"}
        /\ clarifications[a].id = lastCall'.id)
       => Lifecycle(clarifications'[b]) = Lifecycle(clarifications[b])]_vars

\* C2: the status of a clarification changes only along created->submitting,
\* submitting->completed, submitting->failed and failed->submitting, and a
\* success or failure is applied only to a clarification that is submitting.
\* Stated for stores whose ids are pairwise distinct, so that what refutes it
\* is the lifecycle itself and not two clarifications sharing an id.
C2_LifecycleOrder ==
  [][DistinctIds
     => /\ \A i \in Indices :
             Phase(clarifications'[i]) # Phase(clarifications[i])
             => <<Phase(clarifications[i]), Phase(clarifications'[i])>>
                  \in Transitions
        /\ lastCall'.op \in {"success", "failure"}
           => \A i \in Indices :
                 clarifications[i].id = lastCall'.id
                 => Phase(clarifications[i]) = "submitting"]_vars

C4_RejectionIsFailed ==
  lastCall.op = "failure"
  => \A i \in Indices :
        clarifications[i].id = lastCall.id
        => /\ clarifications[i].status = Failed
           /\ clarifications[i].status # Completed
           /\ clarifications[i].response = ErrorResponse

\* C5: when the backend call for clarification id resolves with text t, the
\* stored clarification with that id gets status completed and response t,
\* and its messageId and selected text stay as they were.
C5_SuccessStoresResponse ==
  [][\A call \in BagToSet(inFlight), content \in OpenAIContents :
       LET res == POST(call.clarification.selectedText, call.request, content)
       IN (FetchResolves(call, content) /\ ResponseOk(res))
          => \A i \in Indices :
                clarifications[i].id = call.clarificationId
                => /\ clarifications'[i].status = Completed
                   /\ clarifications'[i].response = res.response
                   /\ Anchor(clarifications'[i]) = Anchor(clarifications[i])]_vars

C5_Witness ==
  /\ lastCall.op = "success"
  /\ \E i \in Indices :
        /\ clarifications[i].id = lastCall.id
        /\ clarifications[i].status = Completed
        /\ clarifications[i].response = FallbackResponse
        /\ clarifications[i].request = <<"q">>

\* C6: submitting a failed clarification again moves it from failed to
\* submitting and stores the new request, and the completion that follows
\* moves it to completed or failed and replaces the earlier response.
C6_RetryFromFailed ==
  [][/\ (lastCall'.op \in SubmitOps /\ Accepted)
        => \A i \in Indices :
              (/\ clarifications[i].id = lastCall'.id
               /\ clarifications[i].response = ErrorResponse)
              => /\ clarifications[i].status = Failed
                 /\ clarifications'[i].status = "pending"
                 /\ clarifications'[i].request = AcceptedRequest
     /\ lastCall'.op = "success"
        => \A i \in Indices :
              clarifications[i].id = lastCall'.id
              => /\ clarifications'[i].status = Completed
                 /\ clarifications'[i].response \notin {Undefined, ErrorResponse}
     /\ lastCall'.op = "failure"
        => \A i \in Indices :
              clarifications[i].id = lastCall'.id
              => /\ clarifications'[i].status = Failed
                 /\ clarifications'[i].response = ErrorResponse]_vars

C8_BlankIsNoOp ==
  [][/\ (Trim(request) = << >> /\ lastCall'.op \in {"click", "enter"})
        => UNCHANGED <<clarifications, inFlight>>
     /\ \A id \in ClockValues, r \in Requests :
          (Trim(r) = << >> /\ HandleClarificationSubmit(id, r))
          => UNCHANGED <<clarifications, inFlight>>]_vars

\* C8 as amended: a submit with a blank request made through the panel (button
\* or Enter key) changes no clarification, starts no backend call and keeps
\* the textbox; handleClarificationSubmit itself has no such guard, and called
\* with a blank request for a stored id it stores the request and starts a
\* backend call.
C8_BlankPanelSubmitIsNoOp ==
  [][/\ (lastCall'.op \in {"click", "enter"} /\ Trim(request) = << >>)
        => UNCHANGED <<clarifications, activeClarification, inFlight, request>>
     /\ (lastCall'.op = "handleClarificationSubmit" /\ Known(lastCall'.id))
        => \A r \in Requests :
              (Trim(r) = << >> /\ HandleClarificationSubmit(lastCall'.id, r))
              => /\ Accepted
                 /\ \A i \in Indices :
                       clarifications[i].id = lastCall'.id
                       => clarifications'[i].request = r]_vars

C8_Witness ==
  /\ lastCall.op = "enter"
  /\ activeClarification # Null
  /\ request = <<" ">>
  /\ Len(clarifications) = 1
  /\ clarifications[1].status = Completed

\* C9: create appends exactly one clarification with the status of creation,
\* an empty request and no response, makes it the active one and leaves every
\* clarification that existed before as it was.
C9_CreateAppendsActive ==
  [][lastCall'.op = "handleTextSelection"
     => /\ Len(clarifications') = Len(clarifications) + 1
        /\ LET new == clarifications'[Len(clarifications')]
           IN /\ new.status = Created
              /\ new.request = << >>
              /\ new.response = Undefined
              /\ activeClarification' = new
        /\ \A i \in Indices : clarifications'[i] = clarifications[i]]_vars

C9_Witness ==
  /\ lastCall.op = "handleTextSelection"
  /\ Len(clarifications) = 2
  /\ clarifications[1].status = Completed
  /\ clarifications[1].request = <<"q">>
  /\ activeClarification = clarifications[2]
  /\ activeClarification # clarifications[1]

\* C10: close sets the active clarification to none and changes nothing else,
\* and no step that changes which clarification is active changes the status,
\* request, response or anchor of a stored clarification.
C10_CloseOnlyDetaches ==
  [][/\ lastCall'.op = "handleCloseClarification"
        => /\ activeClarification' = Null
           /\ UNCHANGED <<clarifications, inFlight, request, now>>
     /\ ActiveId' # ActiveId
        => /\ Len(clarifications') >= Len(clarifications)
           /\ \A i \in Indices : clarifications'[i] = clarifications[i]]_vars

C10_Witness ==
  /\ lastCall.op = "handleCloseClarification"
  /\ activeClarification = Null
  /\ BagCardinality(inFlight) = 1
  /\ Len(clarifications) = 2

\* C11: a close or a create leaves the calls in flight as they are, and the
\* later success or failure of a call still updates the stored clarification
\* with the call's id (status and response) without changing which
\* clarification is active: a closed panel stays closed and another active
\* clarification stays exactly as it was.
C11_CompletionAfterDetach ==
  [][/\ lastCall'.op \in {"handleCloseClarification", "handleTextSelection"}
        => inFlight' = inFlight
     /\ lastCall'.op \in {"success", "failure"}
        => /\ Known(lastCall'.id)
           /\ \A i \in Indices :
                 clarifications[i].id = lastCall'.id
                 => /\ clarifications'[i].status = Completed
                    /\ clarifications'[i].response # Undefined
                    /\ lastCall'.op = "failure"
                       => clarifications'[i].response = ErrorResponse
           /\ ActiveId' = ActiveId
           /\ ActiveId # lastCall'.id
              => activeClarification' = activeClarification]_vars

C11_Witness ==
  /\ lastCall.op = "success"
  /\ Len(clarifications) = 2
  /\ clarifications[1].id = lastCall.id
  /\ clarifications[1].response = "t1"
  /\ activeClarification = clarifications[2]
  /\ ActiveId # lastCall.id

\* C12: after any sequence of creates, two creates that read the same clock
\* value included, the clarifications of the store have pairwise distinct ids.
C12_IdsPairwiseDistinct ==
  \A i \in Indices, j \in Indices :
     clarifications[i].id = clarifications[j].id => i = j

\* C13: whenever a clarification is active, the copy handed to the panel has
\* the status, request and response of the stored clarification with its id.
\* Stated for stores whose ids are pairwise distinct, so that what refutes it
\* is the copy going stale and not two clarifications sharing an id.
C13_ActiveCopyIsCurrent ==
  (activeClarification # Null /\ DistinctIds)
  => \A i \in Indices :
        clarifications[i].id = activeClarification.id
        => Lifecycle(activeClarification) = Lifecycle(clarifications[i])

\* C14: after a submission of the active clarification failed, the panel
\* shows the error text as the response of the clarification, and its submit
\* button is enabled as soon as the request typed is not blank.
C14_FailureShownAndRetryable ==
  (/\ lastCall.op = "failure"
   /\ activeClarification # Null
   /\ activeClarification.id = lastCall.id)
  => /\ activeClarification.response = ErrorResponse
     /\ Truthy(Trim(request)) => ~ButtonDisabled

\* C15: once a selection signal has been processed, a selection that is
\* whitespace-only, or whose common ancestor lies outside the message's
\* container, has produced no candidate: the Clarify button of the message is
\* not shown and no candidate text is kept, in AIMessage, and MessageBubble's
\* test does not accept it either.
C15_NoCandidateOutside ==
  (/\ lastCall.op = "processSelection"
   /\ selection # Null
   /\ \/ Trim(SelectionToString(selection)) = << >>
      \/ ~Contains(CommonAncestorContainer(selection)))
  => /\ ~showClarifyButton
     /\ selected = << >>
     /\ ~(Truthy(Trim(SelectionToString(selection)))
           /\ IsSelectionInMessage(selection))

\* C16: every clarification created through the Clarify button has a
\* selected text that is not empty and has no leading or trailing whitespace.
C16_AnchorTextTrimmed ==
  \A i \in Indices :
     /\ clarifications[i].selectedText # << >>
     /\ Trim(clarifications[i].selectedText) = clarifications[i].selectedText

C16_Witness ==
  /\ lastCall.op = "handleTextSelection"
  /\ selectionRangeRef = Range("message", 22, "message", 45)
  /\ Head(SelectionToString(selectionRangeRef)) = " "
  /\ Len(clarifications) = 1
  /\ Head(clarifications[1].selectedText) = "o"
  /\ Len(clarifications[1].selectedText) = 22

NewestClarification == clarifications[Len(clarifications)]

\* C19: the anchor of a clarification just created has offsets with
\* 0 <= startOffset < endOffset <= length of the message's text, and its text
\* is the slice [startOffset, endOffset) of that text.
C19_OffsetsAtCreation ==
  lastCall.op = "handleTextSelection"
  => /\ Has(NewestClarification, "startOffset")
     /\ Has(NewestClarification, "endOffset")
     /\ 0 <= NewestClarification.startOffset
     /\ NewestClarification.startOffset < NewestClarification.endOffset
     /\ NewestClarification.endOffset <= Len(MessageText)
     /\ NewestClarification.selectedText =
           Slice(MessageText, NewestClarification.startOffset, NewestClarification.endOffset)

OptimizationAlgorithm ==
  <<"o", "p", "t", "i", "m", "i", "z", "a", "t", "i", "o", "n",
    " ", "a", "l", "g", "o", "r", "i", "t", "h", "m">>

\* C20: in the message "Gradient descent is an optimization algorithm.", the
\* clarification created from the accepted selection "optimization algorithm"
\* has that text, startOffset 20 and endOffset 42.
C20_ScenarioAnchor ==
  (/\ lastCall.op = "handleTextSelection"
   /\ selectionRangeRef # Null
   /\ SelectionToString(selectionRangeRef) = OptimizationAlgorithm)
  => /\ NewestClarification.selectedText = OptimizationAlgorithm
     /\ Has(NewestClarification, "startOffset")
     /\ Has(NewestClarification, "endOffset")
     /\ NewestClarification.startOffset = 20
     /\ NewestClarification.endOffset = 42

Submitting(id) ==
  /\ \E call \in BagToSet(inFlight) : call.clarificationId = id
  /\ \E i \in Indices :
        clarifications[i].id = id /\ clarifications[i].status = "pending"

Settled(id) ==
  \A i \in Indices :
     clarifications[i].id = id
     => clarifications[i].status \in {Completed, Failed}

\* C22: when every backend call eventually resolves or rejects, a
\* clarification whose submit was accepted eventually has status completed or
\* failed, also when its panel was closed or another clarification is active.
C22_SubmittingSettles ==
  \A id \in ClockValues : Submitting(id) ~> Settled(id)

C22_Witness ==
  /\ lastCall.op = "failure"
  /\ activeClarification = Null
  /\ inFlight = EmptyBag
  /\ Len(clarifications) = 1
  /\ clarifications[1].id = lastCall.id
  /\ clarifications[1].request = <<"q">>
  /\ clarifications[1].status = Completed

\* A submit was accepted for clarification i: its call is in flight or has
\* settled (read for stores whose ids are pairwise distinct).
SubmitAccepted(i) ==
  \/ clarifications[i].status = Completed
  \/ \E call \in BagToSet(inFlight) :
        call.clarificationId = clarifications[i].id

\* C23: the request of a clarification is empty exactly when no submit has
\* been accepted for it, a clarification whose status is the status of
\* creation has an empty request and no response, and a completed one has a
\* response.  Stated for stores whose ids are pairwise distinct.
C23_RequestAndStatus ==
  DistinctIds
  => \A i \in Indices :
        /\ (clarifications[i].request = << >>) <=> ~SubmitAccepted(i)
        /\ clarifications[i].status = Created
           => /\ clarifications[i].request = << >>
              /\ clarifications[i].response = Undefined
        /\ clarifications[i].status = Completed
           => clarifications[i].response # Undefined

C25_NoReprocessing ==
  [][/\ lastCall'.op = "handleTextSelection"
        => ~showClarifyButton' /\ selected' = << >>
     /\ isClarifyingRef
        => UNCHANGED <<showClarifyButton, selected>>]_vars

\* The document has no selection with text other than whitespace.
NothingSelected ==
  selection = Null \/ Trim(SelectionToString(selection)) = << >>

\* C26: once a component has processed a selection signal while the
\* selection is empty or whitespace-only, its button (AIMessage) or context
\* menu (MessageBubble) is hidden and its candidate text is empty, whatever
\* was shown before.
C26_EmptySelectionResets ==
  /\ (lastCall.op = "processSelection" /\ NothingSelected)
     => ~showClarifyButton /\ selected = << >>
  /\ (lastCall.op = "selectionTimeout" /\ NothingSelected)
     => ~showContextMenu /\ bubbleSelectedText = << >>

\* C27: the processing of a selection, and with it the showing of the button
\* or the context menu, leaves the document selection as it is; so does the
\* click that promotes the candidate, in AIMessage and in MessageBubble; and
\* the work AIMessage defers at the click ends with the range captured at the
\* click selected.
C27_SelectionKept ==
  [][/\ lastCall'.op \in {"processSelection", "processSelection:uncaught",
                          "selectionTimeout", "handleTextSelection"}
        => selection' = selection
     /\ lastCall'.op = "restoreSelection"
        => /\ selection' # Null
           /\ selection' = Head(deferred).rangeToRestore]_vars

\* C28: the selected text of the clarification a click on the Clarify button
\* has just created is the trimmed text of the document selection as it is at
\* the click (which the click leaves unchanged), whenever the document has a
\* selection then.
C28_AnchorIsCurrentSelection ==
  (lastCall.op = "handleTextSelection" /\ selection # Null)
  => NewestClarification.selectedText = Trim(SelectionToString(selection))

\* The callback placed the button from the rectangles of this layout.
Placed(layout) ==
  /\ ProcessTimeout(layout)
  /\ showClarifyButton'
  /\ layout.contentRect # Null
  /\ layout.throws # "catch"

\* C29: for an accepted selection with rectangle S, container rectangle C and
\* content rectangle K the button is placed at top = S.top + S.height / 2 -
\* C.top and left = K.right - C.left + 12 (here in half pixels), and two
\* selections that differ only in their horizontal position get the same
\* place.
C29_ButtonPosition ==
  [][/\ \A layout \in Layouts :
          Placed(layout)
          => LET S == layout.rect
                 C == layout.containerRect
                 K == layout.contentRect
             IN /\ buttonPosition'.top = (2 * S.top) + S.height - (2 * C.top)
                /\ buttonPosition'.left = 2 * (K.right - C.left + 12)
     /\ \A a \in Layouts, b \in Layouts :
          (Placed(a) /\ b.throws = "never"
           /\ b.containerRect = a.containerRect
           /\ b.contentRect = a.contentRect
           /\ b.rect.top = a.rect.top /\ b.rect.height = a.rect.height)
          => buttonPosition' =
               ButtonPosition(b.rect, b.containerRect, b.contentRect)]_vars

C29_Witness ==
  /\ lastCall.op = "processSelection"
  /\ showClarifyButton
  /\ selected = OptimizationAlgorithm
  /\ buttonPosition = [top |-> 61, left |-> 1184]

ZeroSize(rect) == rect.width = 0 \/ rect.height = 0

\* The layout gives no rectangles to place the button with.
Unusable(layout) ==
  \/ layout.containerRect = Null
  \/ layout.contentRect = Null
  \/ ZeroSize(layout.containerRect)
  \/ ZeroSize(layout.contentRect)
  \/ layout.throws # "never"

\* C30: when the callback meets a container or content rectangle that is
\* missing or of size zero, or a call that throws, the button is hidden
\* afterwards and no exception leaves the callback.
C30_UnusableLayoutHides ==
  [][\A layout \in Layouts :
       (ProcessTimeout(layout) /\ Unusable(layout))
       => /\ ~showClarifyButton'
          /\ lastCall'.op # "processSelection:uncaught"]_vars

\* The call this step added to those in flight.
AcceptedCall ==
  CHOOSE call \in BagToSet(inFlight') :
     CopiesIn(call, inFlight') = CopiesIn(call, inFlight) + 1

\* The context is the last lines of the conversation, five at most, in the
\* order of the conversation.
RecentContext(context, msgs) ==
  /\ Len(context) = Min(5, Len(msgs))
  /\ \A k \in 1..Len(context) :
        context[k] = ContextLine(msgs[Len(msgs) - Len(context) + k])

\* C31: a submit the panel accepts (the request typed is not blank) starts
\* exactly one backend call, and the call carries the selected text of the
\* clarification submitted (the one the panel shows, and every stored one
\* with its id), the request as typed, and as context the last messages of the
\* conversation as it is at the submit, five at most, in conversation order.
C31_BackendCall ==
  [][(lastCall'.op \in {"click", "enter"} /\ Truthy(Trim(request)))
     => /\ BagCardinality(inFlight') = BagCardinality(inFlight) + 1
        /\ AcceptedCall.clarification.selectedText =
              activeClarification.selectedText
        /\ \A i \in Indices :
              clarifications[i].id = activeClarification.id
              => AcceptedCall.clarification.selectedText =
                   clarifications[i].selectedText
        /\ AcceptedCall.request = request
        /\ RecentContext(AcceptedCall.conversationContext, messages)]_vars

\* C32: when a backend call resolves with a result, every stored
\* clarification with the call's id is completed with that result as its
\* response, and the result is the one for the request the clarification has
\* stored (the request of its most recently accepted submit): the call that
\* resolved was made with that request, in whatever order calls complete and
\* also when two submissions of one id overlap.  Stated for stores whose ids
\* are pairwise distinct, so that what refutes it is the order of completions
\* and not two clarifications sharing an id.
C32_ResponseForStoredRequest ==
  [][(lastCall'.op = "success" /\ DistinctIds)
     => \A call \in BagToSet(inFlight), content \in OpenAIContents :
           LET res == POST(call.clarification.selectedText, call.request,
                           content)
           IN (FetchResolves(call, content) /\ ResponseOk(res))
              => \A i \in Indices :
                    clarifications[i].id = call.clarificationId
                    => /\ clarifications'[i].status = Completed
                       /\ clarifications'[i].response = res.response
                       /\ clarifications'[i].request = call.request]_vars

\* The calls in flight for the clarification(s) with this id.
InFlightFor(id) ==
  LET calls == {call \in BagToSet(inFlight) : call.clarificationId = id}
  IN BagCardinality([call \in calls |-> CopiesIn(call, inFlight)])

\* C33: at every moment at most one backend call is in flight for each
\* clarification id: while a call for an id has not settled, neither the
\* submit button nor the Enter key nor a direct call of
\* handleClarificationSubmit starts another one for that id.
C33_OneCallPerId ==
  \A id \in ClockValues : InFlightFor(id) <= 1

\* The active clarification was created and never submitted, and the request
\* typed is not blank (and the model has room for one more call).
FirstSubmissionReady ==
  /\ activeClarification # Null
  /\ \A i \in Indices :
        clarifications[i].id = activeClarification.id
        => /\ clarifications[i].request = << >>
           /\ clarifications[i].response = Undefined
  /\ InFlightFor(activeClarification.id) = 0
  /\ Truthy(Trim(request))
  /\ BagCardinality(inFlight) < MaxInFlight

\* C34: for an active clarification that was never submitted and a request
\* that is not blank, the submit button is enabled and a click on it starts
\* the submission, and so does the Enter key.
C34_FirstSubmitEnabled ==
  FirstSubmissionReady
  => /\ ~ButtonDisabled
     /\ ENABLED (ClickSubmit /\ Accepted)
     /\ ENABLED (HandleKeyPress /\ Accepted)

\* C35: when another clarification becomes the active one (a create, with or
\* without a close before it), the request draft of the panel is empty
\* afterwards, so that what was typed for the clarification active before
\* cannot be submitted with the id of the new one.  Stated for creates that
\* give the new clarification an id of its own.
C35_DraftClearedOnSwitch ==
  [][(lastCall'.op = "handleTextSelection" /\ DistinctIds')
     => request' = << >>]_vars

\* C36: the list of clarifications is append-only: a create makes it longer
\* by exactly one entry, every other step (submit, success, failure, close,
\* typing) leaves its length as it is, and every entry stays at its place
\* with its id and anchor.
C36_AppendOnly ==
  [][/\ lastCall'.op = "handleTextSelection"
        => Len(clarifications') = Len(clarifications) + 1
     /\ lastCall'.op # "handleTextSelection"
        => Len(clarifications') = Len(clarifications)
     /\ \A i \in Indices :
           /\ i <= Len(clarifications')
           /\ clarifications'[i].id = clarifications[i].id
           /\ Anchor(clarifications'[i]) = Anchor(clarifications[i])]_vars

C36_Witness ==
  /\ lastCall.op = "failure"
  /\ lastCall.id = 1
  /\ Len(clarifications) = 2
  /\ clarifications[1].id = 1
  /\ clarifications[1].response = ErrorResponse
  /\ clarifications[2].id = 2
  /\ clarifications[2].response = "t1"
  /\ activeClarification = Null

\* C37: at most one chat request is in flight at any time, and a send with a
\* blank input, or while the reply to an earlier send is awaited, appends no
\* message, starts no request and leaves the input and the loading flag as
\* they are.
C37_OneChatRequest ==
  [][/\ chatInFlight' <= 1
     /\ (/\ lastCall'.op \in {"handleSendMessage", "handleSendMessage:ignored"}
         /\ (Trim(inputValue) = << >> \/ isLoading))
        => UNCHANGED <<messages, chatInFlight, isLoading, inputValue>>]_vars

C37_Witness ==
  /\ lastCall.op = "handleSendMessage:ignored"
  /\ isLoading
  /\ chatInFlight = 1
  /\ Len(messages) = 2
  /\ messages[2] = [role |-> "user", content |-> <<"q">>]

\* C38: an accepted send appends the user's message and sets the loading
\* flag; the settling of its request appends exactly one assistant message
\* (the fixed error text if it failed) and clears the flag, and when every
\* request settles this does follow every accepted send; no step shortens or
\* reorders the message list, and sending and its settling leave the
\* clarifications and the active clarification as they are.
C38_SendThenOneReply ==
  /\ [][/\ lastCall'.op = "handleSendMessage"
           => /\ messages' =
                   Append(messages, [role |-> "user", content |-> inputValue])
              /\ isLoading'
        /\ lastCall'.op \in {"chatResolves", "chatRejects"}
           => /\ isLoading
              /\ Len(messages') = Len(messages) + 1
              /\ messages'[Len(messages')].role = "assistant"
              /\ (lastCall'.op = "chatRejects"
                  => messages'[Len(messages')].content = ChatErrorText)
              /\ ~isLoading'
        /\ Len(messages') >= Len(messages)
        /\ \A i \in 1..Len(messages) : messages'[i] = messages[i]
        /\ lastCall'.op \in {"handleSendMessage", "handleSendMessage:ignored",
                              "chatResolves", "chatRejects"}
           => UNCHANGED <<clarifications, activeClarification>>]_vars
  /\ \A n \in 1..MaxMessages :
        (isLoading /\ Len(messages) = n)
        ~> (/\ ~isLoading
            /\ Len(messages) = n + 1
            /\ messages[n + 1].role = "assistant")

C38_Witness ==
  /\ lastCall.op = "chatRejects"
  /\ ~isLoading
  /\ Len(messages) = 3
  /\ messages[2] = [role |-> "user", content |-> <<"q">>]
  /\ messages[3] = [role |-> "assistant", content |-> ChatErrorText]
  /\ Len(clarifications) = 1
  /\ activeClarification = clarifications[1]

\* The request lacks a selected text or a question.
LacksField(body) ==
  \/ body \in {Null, Unparsable}
  \/ ~Has(body, "selectedText") \/ body.selectedText = << >>
  \/ ~Has(body, "userQuestion") \/ body.userQuestion = << >>

\* C39: the endpoint answers a request whose selectedText or userQuestion is
\* missing or empty with status 400 and without calling the generator, a
\* failure of the generator with status 500, and only a successful generation
\* with a success status and a body that has the response text.
C39_RouteStatuses ==
  served # Null
  => /\ LacksField(served.body)
        => served.res.status = 400 /\ served.generator = "not called"
     /\ served.generator = GeneratorThrows => served.res.status = 500
     /\ ResponseOk(served.res)
        <=> (served.generator \in OpenAIContents /\ ~LacksField(served.body))
     /\ ResponseOk(served.res) <=> served.res.response # Undefined
====
